---------------------------- MODULE Spec2Model ----------------------------
(***************************************************************************)
(* drive_time.py as a state machine: one process invocation, from module   *)
(* import (credential check and connectivity probe) through main().        *)
(*                                                                         *)
(* Strings are sequences of one-character strings, so that str.strip and   *)
(* str.split are computed.  Exception messages are sequences of words, so  *)
(* that the substring test of line 152 is computed at word granularity.    *)
(* The numeric formatting of the ETA lines (round, :.1f, strftime) is not  *)
(* modelled: an ETA line carries the values it is formatted from.          *)
(***************************************************************************)
EXTENDS Integers, Sequences, FiniteSets, TLC

VARIABLES
    pc,           \* position of the process
    api_key,      \* os.getenv("GOOGLE_MAPS_API_KEY") after load_dotenv()
    gmaps,        \* module global: "unbound" or "client"
    probe,        \* the outcomes of gmaps.geocode('Test', timeout=2), in order
    argv,         \* the command line
    parsed,       \* parser.parse_args() has returned
    args,         \* args.origin / args.destination
    file,         \* DEFAULTS_FILE on disk
    file0,        \* DEFAULTS_FILE as it was when the process started
    file_reads,   \* number of open(DEFAULTS_FILE, 'r')
    file_writes,  \* number of save_defaults calls
    prompts,      \* the raw lines read by input(), in order
    now,          \* int(time.time()) of line 123
    queries,      \* the gmaps.directions calls made, in order
    results,      \* what each of those calls produced, in order
    out,          \* the lines printed to stdout, in order
    exit_status,  \* the process exit status once pc = "exit"
    uncaught      \* type of the exception that left main() uncaught, or "none"

vars == <<pc, api_key, gmaps, probe, argv, parsed, args, file, file0, file_reads,
          file_writes, prompts, now, queries, results, out, exit_status,
          uncaught>>

----------------------------------------------------------------------------
(* Values *)

\* Python's None where a str is expected
None == <<"<None>">>

\* input() at end of input raises EOFError
EOF == <<"<EOF>">>

Whitespace == {" "}

Line(kind, strs, nums) == [kind |-> kind, strs |-> strs, nums |-> nums]

Returns(v) == [exc |-> "none", msg |-> <<>>, val |-> v]

Raises(type, msg) == [exc |-> type, msg |-> msg, val |-> None]

\* str.strip()
RECURSIVE LStrip(_)
LStrip(s) ==
    IF s # <<>> /\ Head(s) \in Whitespace THEN LStrip(Tail(s)) ELSE s

RECURSIVE RStrip(_)
RStrip(s) ==
    IF s # <<>> /\ s[Len(s)] \in Whitespace
    THEN RStrip(SubSeq(s, 1, Len(s) - 1))
    ELSE s

Strip(s) == RStrip(LStrip(s))

\* the first word of s after leading whitespace (s has no leading whitespace)
RECURSIVE Word(_)
Word(s) ==
    IF s = <<>> \/ Head(s) \in Whitespace THEN <<>>
    ELSE <<Head(s)>> \o Word(Tail(s))

\* distance.split()[0]
FirstToken(s) ==
    IF LStrip(s) = <<>>
    THEN Raises("IndexError", <<"list", "index", "out", "of", "range">>)
    ELSE Returns(Word(LStrip(s)))

Digits == {"0", "1", "2", "3", "4", "5", "6", "7", "8", "9"}

\* float(tok) over the alphabet of digits, "." and ","
ParseFloat(tok) ==
    IF /\ \A i \in 1..Len(tok) : tok[i] \in Digits \cup {"."}
       /\ \E i \in 1..Len(tok) : tok[i] \in Digits
       /\ Cardinality({i \in 1..Len(tok) : tok[i] = "."}) <= 1
    THEN Returns(tok)
    ELSE Raises("ValueError", <<"could", "not", "convert", "string", "to", "float">>)

\* "ZERO_RESULTS" in str(e)
MentionsZeroResults(msg) == \E i \in 1..Len(msg) : msg[i] = "ZERO_RESULTS"

----------------------------------------------------------------------------
(* Inputs *)

CliOrigin == <<"A">>
CliDestination == <<"B">>
SavedOrigin == <<"S">>
SavedDestination == <<"T">>

\* longest line typed at a prompt
MaxInputLen == 2

PromptAlphabet == {" ", "P"}

\* what the user may type at a prompt
PromptInputs == UNION { [1..n -> PromptAlphabet] : n \in 0..MaxInputLen }

\* the addresses the service answers with
FormattedPairs == { <<<<"F">>, <<"G">>>>, <<<<"H">>, <<"K">>>> }

DistanceTexts ==
    { <<"3", ".", "4", " ", "m", "i">>,
      <<"1", ",", "2", "3", "4", " ", "m", "i">>,
      <<>> }

\* duration_in_traffic values, seconds
Durations == {0, 1800}

\* values of int(time.time())
Epochs == {1000, 2000}

NoFuture == [given |-> FALSE, n |-> 0]

Futures == {NoFuture} \cup {[given |-> TRUE, n |-> n] : n \in {0, 30}}

ApiKeys == {"unset", "malformed", "set"}

\* JSON values a preferences file may hold
JNull == [kind |-> "null", fields |-> <<>>]
JArray == [kind |-> "array", fields |-> <<SavedOrigin, SavedDestination>>]
JObject(fields) == [kind |-> "object", fields |-> fields]

JsonValues ==
    { JNull, JArray, JObject(<<>>),
      JObject([origin |-> SavedOrigin]),
      JObject([origin |-> SavedOrigin, destination |-> SavedDestination]) }

FileAbsent == [state |-> "absent", value |-> JNull]

FileStates ==
    { FileAbsent,
      [state |-> "undecodable", value |-> JNull],
      [state |-> "malformed", value |-> JNull] }
    \cup { [state |-> "json", value |-> v] : v \in JsonValues }

\* command lines; wellformed = FALSE is one argparse rejects (e.g. -f x)
\* (the first positional is origin: destination is never given alone)
CommandLines ==
    { c \in [ origin : {None, CliOrigin}, destination : {None, CliDestination},
              future : Futures, defaults : BOOLEAN, wellformed : {TRUE} ] :
        c.origin = None => c.destination = None }
    \cup { [origin |-> None, destination |-> None, future |-> NoFuture,
            defaults |-> FALSE, wellformed |-> FALSE] }

\* one leg of a directions response
Legs ==
    [ duration : Durations, addresses : FormattedPairs, distance : DistanceTexts ]

\* What the call gmaps.directions(...) of line 53 can produce: a list of routes
\* or an exception.  A ZERO_RESULTS status reaches the caller either as an
\* exception naming the status (what line 152 tests for) or as an empty list
\* of routes (what the client library returns for that status).
DirectionsOutcomes ==
    { [status |-> "OK", raised |-> FALSE, routes |-> <<leg>>, msg |-> <<>>] :
        leg \in Legs }
    \cup
    { [status |-> "ZERO_RESULTS", raised |-> FALSE, routes |-> <<>>, msg |-> <<>>],
      [status |-> "ZERO_RESULTS", raised |-> TRUE, routes |-> <<>>,
       msg |-> <<"ZERO_RESULTS">>],
      [status |-> "NOT_FOUND", raised |-> TRUE, routes |-> <<>>,
       msg |-> <<"NOT_FOUND">>],
      [status |-> "TRANSPORT", raised |-> TRUE, routes |-> <<>>,
       msg |-> <<"Timeout">>] }

\* outcomes of gmaps.geocode('Test', timeout=2)
ProbeOutcomes == {"ok", "failed"}

----------------------------------------------------------------------------
(* Printed lines *)

MissingKeyLines ==
    << Line("Error: GOOGLE_MAPS_API_KEY environment variable not found.", <<>>, <<>>),
       Line("Please set it in your .env file or environment variables.", <<>>, <<>>),
       Line("You can get an API key from: ...", <<>>, <<>>) >>

ClientInitErrorLines ==
    << Line("Error initializing Google Maps client: {}", <<>>, <<>>),
       Line("Please check your API key and ensure it's valid.", <<>>, <<>>) >>

ConnectErrorLines ==
    << Line("Error: Failed to connect to Google Maps API: {}", <<>>, <<>>),
       Line("Please check your internet connection and API key permissions.", <<>>, <<>>) >>

NoDefaultsLine ==
    Line("No default addresses found. Please provide addresses.", <<>>, <<>>)

MustProvideLine ==
    Line("Error: Must provide addresses when using --defaults", <<>>, <<>>)

HelpLine == Line("usage: ...", <<>>, <<>>)

SavedLine(origin, destination) ==
    Line("Saved default addresses: {} -> {}", <<origin, destination>>, <<>>)

RouteLine(formatted_origin, formatted_destination, distance) ==
    Line("Route: {} -> {} ({})",
         <<formatted_origin, formatted_destination, distance>>, <<>>)

CurrentEtaLine(seconds, distance_mi) ==
    Line("Current ETA: ...", <<distance_mi>>, <<seconds>>)

FutureEtaLine(future, seconds, distance_mi) ==
    Line("ETA in {} min: ...", <<distance_mi>>, <<future, seconds>>)

ErrorLine(msg) == Line("Error: {}", <<msg>>, <<>>)

NoRouteLine ==
    Line("No route found between the specified addresses.", <<>>, <<>>)

----------------------------------------------------------------------------
(* The functions of drive_time.py *)

\* the credential check left out: every key goes on to googlemaps.Client
KeyMissing_Never(key) == FALSE

\* `not api_key`
KeyMissing(key) == key = "unset"

\* get_gmaps_client: the lines printed, and whether sys.exit(1) was called
get_gmaps_client(key) ==
    IF KeyMissing(key) THEN [exits |-> TRUE, out |-> MissingKeyLines]
    ELSE IF key # "set" THEN [exits |-> TRUE, out |-> ClientInitErrorLines]
    ELSE [exits |-> FALSE, out |-> <<>>]

\* the except clause of lines 41-44, reached when geocode raises
ProbeFailure == [exits |-> TRUE, out |-> ConnectErrorLines]

\* eta_minutes, given what gmaps.directions produced
eta_minutes(outcome) ==
    IF outcome.raised THEN Raises("ApiError", outcome.msg)
    ELSE IF outcome.routes = <<>>
    THEN Raises("IndexError", <<"list", "index", "out", "of", "range">>)
    ELSE LET leg == outcome.routes[1]
         IN  Returns([seconds |-> leg.duration,
                      formatted_origin |-> leg.addresses[1],
                      formatted_destination |-> leg.addresses[2],
                      distance |-> leg.distance])

\* load_defaults: FileNotFoundError and JSONDecodeError give None (null);
\* a file that cannot be decoded as text raises UnicodeDecodeError
load_defaults(f) ==
    CASE f.state = "absent"      -> Returns(JNull)
      [] f.state = "malformed"   -> Returns(JNull)
      [] f.state = "undecodable" -> Raises("UnicodeDecodeError", <<"invalid", "start", "byte">>)
      [] OTHER                   -> Returns(f.value)

\* origin and destination written under each other's key
DefaultsObject_Swapped(origin, destination) ==
    [kind |-> "object", fields |-> [origin |-> destination, destination |-> origin]]

\* the object json.dump writes
DefaultsObject(origin, destination) ==
    JObject([origin |-> origin, destination |-> destination])

\* save_defaults: mkdir or open fails when the location is not writable
save_defaults(origin, destination, writable, f) ==
    IF writable
    THEN [exc |-> "none",
          file |-> [state |-> "json", value |-> DefaultsObject(origin, destination)]]
    ELSE [exc |-> "PermissionError", file |-> f]

\* truth value of a loaded JSON value
Truthy(v) ==
    CASE v.kind = "null"   -> FALSE
      [] v.kind = "array"  -> v.fields # <<>>
      [] v.kind = "object" -> DOMAIN v.fields # {}

\* defaults[key]
Subscript(v, key) ==
    IF v.kind # "object" THEN Raises("TypeError", <<"indices", "must", "be", "integers">>)
    ELSE IF key \notin DOMAIN v.fields THEN Raises("KeyError", <<key>>)
    ELSE Returns(v.fields[key])

\* get_addresses, with in1 and in2 what input() gives (a line, or EOF)
get_addresses(f, in1, in2) ==
    LET defaults == load_defaults(f)
        fail(exc, printed, read) ==
            [exc |-> exc, origin |-> None, destination |-> None,
             out |-> printed, prompts |-> read]
    IN  IF defaults.exc # "none" THEN fail(defaults.exc, <<>>, <<>>)
        ELSE IF ~Truthy(defaults.val)
        THEN IF in1 = EOF THEN fail("EOFError", <<NoDefaultsLine>>, <<EOF>>)
             ELSE IF in2 = EOF THEN fail("EOFError", <<NoDefaultsLine>>, <<in1, EOF>>)
             ELSE [exc |-> "none", origin |-> Strip(in1), destination |-> Strip(in2),
                   out |-> <<NoDefaultsLine>>, prompts |-> <<in1, in2>>]
        ELSE LET o == Subscript(defaults.val, "origin")
                 d == Subscript(defaults.val, "destination")
             IN  IF o.exc # "none" THEN fail(o.exc, <<>>, <<>>)
                 ELSE IF d.exc # "none" THEN fail(d.exc, <<>>, <<>>)
                 ELSE [exc |-> "none", origin |-> o.val, destination |-> d.val,
                       out |-> <<>>, prompts |-> <<>>]

\* `and` for the `or` of line 110
NeedAddresses_Both(a) == a.origin = None /\ a.destination = None

\* line 110
NeedAddresses(a) == a.origin = None \/ a.destination = None

\* `if args.future:` for `if args.future is not None:`
FutureRequested_Truthy(av) == av.future.given /\ av.future.n # 0

\* the check of line 111 left out
SaveWithoutAddresses_Allowed(av) == FALSE

\* line 111
SaveWithoutAddresses(av) == av.defaults

\* line 142
FutureRequested(av) == av.future.given

\* the except clause of lines 150-153
ExceptHandler(msg) ==
    <<ErrorLine(msg)>> \o (IF MentionsZeroResults(msg) THEN <<NoRouteLine>> ELSE <<>>)

\* float(distance.split()[0])
DistanceMiles(distance) ==
    LET tok == FirstToken(distance)
    IN  IF tok.exc # "none" THEN tok ELSE ParseFloat(tok.val)

\* the two prints of lines 139-140 in the other order
CurrentLines_Reversed(r, miles) ==
    << Line("Current ETA: ...", <<miles>>, <<r.seconds>>),
       Line("Route: {} -> {} ({})",
            <<r.formatted_origin, r.formatted_destination, r.distance>>, <<>>) >>

\* the lines printed at 139-140
CurrentLines(r, miles) ==
    << RouteLine(r.formatted_origin, r.formatted_destination, r.distance),
       CurrentEtaLine(r.seconds, miles) >>

\* line 128 left out: args keeps the strings the user gave
FormattedArgs_Unchanged(a, r) == a

\* line 128
FormattedArgs(a, r) ==
    [origin |-> r.formatted_origin, destination |-> r.formatted_destination]

\* lines 125-140, given what the query produced: the lines printed, the new
\* args.origin / args.destination, and whether the except clause ran
CurrentStep(a, outcome) ==
    LET r == eta_minutes(outcome)
    IN  IF r.exc # "none"
        THEN [failed |-> TRUE, args |-> a, out |-> ExceptHandler(r.msg)]
        ELSE LET miles == DistanceMiles(r.val.distance)
             IN  IF miles.exc # "none"
                 THEN [failed |-> TRUE, args |-> FormattedArgs(a, r.val),
                       out |-> ExceptHandler(miles.msg)]
                 ELSE [failed |-> FALSE, args |-> FormattedArgs(a, r.val),
                       out |-> CurrentLines(r.val, miles.val)]

\* the query of lines 143-144
FutureQuery(a, future, t) ==
    [origin |-> a.origin, destination |-> a.destination, depart |-> t + future * 60]

\* lines 144-149, given what the query produced
FutureStep(future, outcome) ==
    LET r == eta_minutes(outcome)
    IN  IF r.exc # "none" THEN [failed |-> TRUE, out |-> ExceptHandler(r.msg)]
        ELSE LET miles == DistanceMiles(r.val.distance)
             IN  IF miles.exc # "none"
                 THEN [failed |-> TRUE, out |-> ExceptHandler(miles.msg)]
                 ELSE [failed |-> FALSE,
                       out |-> <<FutureEtaLine(future, r.val.seconds, miles.val)>>]

----------------------------------------------------------------------------
(* The process *)

Init ==
    /\ pc = "import"
    /\ api_key \in ApiKeys
    /\ gmaps = "unbound"
    /\ probe = <<>>
    /\ argv \in CommandLines
    /\ parsed = FALSE
    /\ args = [origin |-> None, destination |-> None]
    /\ file \in FileStates
    /\ file0 = file
    /\ file_reads = 0
    /\ file_writes = 0
    /\ prompts = <<>>
    /\ now = 0
    /\ queries = <<>>
    /\ results = <<>>
    /\ out = <<>>
    /\ exit_status = 0
    /\ uncaught = "none"

\* the process ends with the given status
Exit(status, exc) ==
    /\ pc' = "exit"
    /\ exit_status' = status
    /\ uncaught' = exc

\* lines 36-38: load_dotenv(), gmaps = get_gmaps_client()
ImportModule ==
    /\ pc = "import"
    /\ LET r == get_gmaps_client(api_key)
       IN  /\ out' = out \o r.out
           /\ IF r.exits
              THEN Exit(1, "none") /\ UNCHANGED gmaps
              ELSE /\ gmaps' = "client"
                   /\ pc' = "probe"
                   /\ UNCHANGED <<exit_status, uncaught>>
    /\ UNCHANGED <<file0, api_key, probe, argv, parsed, args, file, file_reads,
                   file_writes, prompts, now, queries, results>>

\* lines 39-44: gmaps.geocode('Test', timeout=2)
Probe ==
    /\ pc = "probe"
    /\ \E outcome \in ProbeOutcomes :
         /\ probe' = Append(probe, outcome)
         /\ IF outcome = "ok"
            THEN /\ pc' = "main"
                 /\ UNCHANGED <<out, exit_status, uncaught>>
            ELSE /\ out' = out \o ProbeFailure.out
                 /\ Exit(1, "none")
    /\ UNCHANGED <<file0, api_key, gmaps, argv, parsed, args, file, file_reads,
                   file_writes, prompts, now, queries, results>>

\* lines 99-107: parser.parse_args(); argparse exits with status 2 on a
\* command line it rejects
ParseArgs ==
    /\ pc = "main"
    /\ IF argv.wellformed
       THEN /\ parsed' = TRUE
            /\ args' = [origin |-> argv.origin, destination |-> argv.destination]
            /\ pc' = "resolve"
            /\ UNCHANGED <<exit_status, uncaught>>
       ELSE /\ Exit(2, "none")
            /\ UNCHANGED <<parsed, args>>
    /\ UNCHANGED <<file0, api_key, gmaps, probe, argv, file, file_reads, file_writes,
                   prompts, now, queries, results, out>>

\* lines 110-115
ResolveAddresses ==
    /\ pc = "resolve"
    /\ IF NeedAddresses(args)
       THEN IF SaveWithoutAddresses(argv)
            THEN /\ out' = out \o <<MustProvideLine, HelpLine>>
                 /\ Exit(0, "none")
                 /\ UNCHANGED <<args, file_reads, prompts>>
            ELSE \E in1, in2 \in PromptInputs \cup {EOF} :
                   LET r == get_addresses(file, in1, in2)
                   IN  /\ file_reads' = file_reads + 1
                       /\ prompts' = prompts \o r.prompts
                       /\ out' = out \o r.out
                       /\ IF r.exc # "none"
                          THEN Exit(1, r.exc) /\ UNCHANGED args
                          ELSE /\ args' = [origin |-> r.origin,
                                           destination |-> r.destination]
                               /\ pc' = "save"
                               /\ UNCHANGED <<exit_status, uncaught>>
       ELSE /\ pc' = "save"
            /\ UNCHANGED <<args, file_reads, prompts, out, exit_status, uncaught>>
    /\ UNCHANGED <<file0, api_key, gmaps, probe, argv, parsed, file, file_writes,
                   now, queries, results>>

\* lines 118-120
SaveDefaults ==
    /\ pc = "save"
    /\ IF argv.defaults
       THEN \E writable \in BOOLEAN :
              LET r == save_defaults(args.origin, args.destination, writable, file)
              IN  /\ file_writes' = file_writes + 1
                  /\ file' = r.file
                  /\ IF r.exc # "none"
                     THEN Exit(1, r.exc) /\ UNCHANGED out
                     ELSE /\ out' = Append(out, SavedLine(args.origin, args.destination))
                          /\ pc' = "query"
                          /\ UNCHANGED <<exit_status, uncaught>>
       ELSE /\ pc' = "query"
            /\ UNCHANGED <<file, file_writes, out, exit_status, uncaught>>
    /\ UNCHANGED <<file0, api_key, gmaps, probe, argv, parsed, args, file_reads,
                   prompts, now, queries, results>>

\* lines 122-141, with the except clause of 150-153
QueryCurrent ==
    /\ pc = "query"
    /\ \E t \in Epochs, outcome \in DirectionsOutcomes :
         LET r == CurrentStep(args, outcome)
         IN  /\ now' = t
             /\ queries' = Append(queries, [origin |-> args.origin,
                                            destination |-> args.destination,
                                            depart |-> t])
             /\ results' = Append(results, outcome)
             /\ args' = r.args
             /\ out' = out \o r.out
             /\ IF ~r.failed /\ FutureRequested(argv)
                THEN pc' = "future" /\ UNCHANGED <<exit_status, uncaught>>
                ELSE Exit(0, "none")
    /\ UNCHANGED <<file0, api_key, gmaps, probe, argv, parsed, file, file_reads,
                   file_writes, prompts>>

\* lines 142-149, with the except clause of 150-153
QueryFuture ==
    /\ pc = "future"
    /\ \E outcome \in DirectionsOutcomes :
         LET r == FutureStep(argv.future.n, outcome)
         IN  /\ queries' = Append(queries, FutureQuery(args, argv.future.n, now))
             /\ results' = Append(results, outcome)
             /\ out' = out \o r.out
             /\ Exit(0, "none")
    /\ UNCHANGED <<file0, api_key, gmaps, probe, argv, parsed, args, file, file_reads,
                   file_writes, prompts, now>>

Next ==
    \/ ImportModule
    \/ Probe
    \/ ParseArgs
    \/ ResolveAddresses
    \/ SaveDefaults
    \/ QueryCurrent
    \/ QueryFuture

Spec == Init /\ [][Next]_vars

----------------------------------------------------------------------------
(* Properties *)

BothSupplied == argv.origin # None /\ argv.destination # None

StartupFailed == api_key # "set" \/ probe = <<"failed">>

Printed(line) == \E i \in 1..Len(out) : out[i] = line

PrintedKind(kind) == \E i \in 1..Len(out) : out[i].kind = kind

ErrorKind == "Error: {}"
RouteKind == "Route: {} -> {} ({})"
CurrentKind == "Current ETA: ..."
FutureKind == "ETA in {} min: ..."

\* the saved pair, when the file at startup is an object with both keys
SavedPairAtStart ==
    /\ file0.state = "json"
    /\ file0.value.kind = "object"
    /\ DOMAIN file0.value.fields = {"origin", "destination"}

CliPairObject ==
    [kind |-> "object",
     fields |-> [origin |-> CliOrigin, destination |-> CliDestination]]

\* C1 as stated: after a run with -d A B and no preferences file beforehand
\* (the write not failing), the file holds {origin: A, destination: B}, the
\* confirmation line is printed, and the run performed no directions query.
C1_SaveOnlyNoQuery ==
    (parsed /\ argv.defaults /\ BothSupplied /\ file0 = FileAbsent
       /\ uncaught = "none")
        => /\ queries = <<>>
           /\ pc = "exit" =>
                /\ file = [state |-> "json", value |-> CliPairObject]
                /\ Printed(SavedLine(CliOrigin, CliDestination))

\* C1 amended: in a run with -d A B and no preferences file beforehand whose
\* write succeeds, the file holds exactly {origin: A, destination: B} and the
\* confirmation line is printed before the query step, and the run then goes
\* on to perform the current-ETA query for (A, B).
C1_SaveThenQuery ==
    (parsed /\ argv.defaults /\ BothSupplied /\ file0 = FileAbsent
       /\ uncaught = "none")
        => /\ pc \in {"query", "future", "exit"} =>
                /\ file = [state |-> "json", value |-> CliPairObject]
                /\ file_writes = 1
                /\ out[1] = SavedLine(CliOrigin, CliDestination)
           /\ pc \in {"future", "exit"} =>
                /\ Len(queries) >= 1
                /\ queries[1].origin = CliOrigin
                /\ queries[1].destination = CliDestination

C1_Witness ==
    /\ pc = "exit" /\ argv.defaults /\ BothSupplied /\ file0 = FileAbsent
    /\ file = [state |-> "json", value |-> CliPairObject]
    /\ Len(queries) = 1

\* C2: a run with -d while origin or destination is omitted reports the user
\* error and returns: no directions query, the preferences file neither read
\* nor written and unchanged, no prompt, only the error and the help printed.
C2_SaveWithoutAddressesRejected ==
    (parsed /\ argv.defaults /\ ~BothSupplied)
        => /\ queries = <<>>
           /\ file = file0 /\ file_reads = 0 /\ file_writes = 0
           /\ prompts = <<>>
           /\ pc \in {"resolve", "exit"}
           /\ pc = "exit" =>
                /\ out = <<MustProvideLine, HelpLine>>
                /\ exit_status = 0 /\ uncaught = "none"

C2_Witness ==
    /\ pc = "exit" /\ parsed /\ argv.defaults
    /\ argv.origin = CliOrigin /\ argv.destination = None
    /\ out = <<MustProvideLine, HelpLine>>

\* C3: when the service reports ZERO_RESULTS for the current-ETA query, the
\* run prints an `Error: ` line followed by the no-route line and main
\* returns normally.
C3_NoRouteReported ==
    (pc = "exit" /\ Len(results) >= 1 /\ results[1].status = "ZERO_RESULTS")
        => /\ uncaught = "none" /\ exit_status = 0
           /\ \E i \in 1..(Len(out) - 1) :
                out[i].kind = ErrorKind /\ out[i + 1] = NoRouteLine

\* C4: whatever the preferences file holds, a run with no positional
\* addresses uses the saved pair or goes on to prompt: load never raises and
\* the run never ends with an uncaught error caused by the file's contents.
C4_LoadNeverRaises ==
    (parsed /\ ~BothSupplied /\ ~argv.defaults)
        => /\ uncaught \notin {"UnicodeDecodeError", "KeyError", "TypeError"}
           /\ pc \in {"save", "query", "future"} =>
                IF SavedPairAtStart
                THEN /\ args.origin = file0.value.fields.origin
                     /\ args.destination = file0.value.fields.destination
                ELSE Len(prompts) = 2

\* C5: (for a command line argparse accepts) the process ends with a
\* non-zero exit status exactly when the startup validation failed, and never
\* with an uncaught exception.
C5_NonZeroExitOnlyAtStartup ==
    (pc = "exit" /\ argv.wellformed)
        => /\ (exit_status # 0) <=> StartupFailed
           /\ uncaught = "none"

\* C6: the credential check and the probe come first: when the key is
\* missing, the client cannot be built or the probe fails, the process ends
\* at once with its diagnostic and status 1, with no query, no preferences
\* read or write, no argument handling and no prompt; anything else happens
\* only after a probe that succeeded; the missing-key diagnostic is not the
\* unreachable/invalid-key one.
C6_StartupFirst ==
    /\ Len(probe) <= 1
    /\ StartupFailed => pc \in {"import", "exit"}
    /\ (StartupFailed /\ pc = "exit") =>
         /\ exit_status = 1 /\ uncaught = "none"
         /\ queries = <<>> /\ file = file0 /\ file_reads = 0 /\ file_writes = 0
         /\ ~parsed /\ prompts = <<>>
         /\ out = (CASE api_key = "unset"     -> MissingKeyLines
                     [] api_key = "malformed" -> ClientInitErrorLines
                     [] OTHER                 -> ConnectErrorLines)
    /\ (parsed \/ queries # <<>> \/ file_reads > 0 \/ file_writes > 0
          \/ prompts # <<>> \/ pc \in {"main", "resolve", "save", "query", "future"})
         => (api_key = "set" /\ gmaps = "client" /\ probe = <<"ok">>)
    /\ MissingKeyLines[1] # ClientInitErrorLines[1]
    /\ MissingKeyLines[1] # ConnectErrorLines[1]

C6_Witness ==
    /\ pc = "exit" /\ api_key = "unset" /\ out = MissingKeyLines /\ exit_status = 1

\* C7: with both positional addresses the current-ETA query uses that pair;
\* with fewer than two (and no -d) it uses the saved pair when the file holds
\* one and the stripped pair read at the two prompts otherwise, whether one
\* address or none was given; a single address given is used in no query and
\* printed in no line.
C7_AddressResolution ==
    (parsed /\ Len(queries) >= 1) =>
        IF BothSupplied
        THEN /\ queries[1].origin = argv.origin
             /\ queries[1].destination = argv.destination
             /\ prompts = <<>> /\ file_reads = 0
        ELSE /\ IF SavedPairAtStart
                THEN /\ queries[1].origin = file0.value.fields.origin
                     /\ queries[1].destination = file0.value.fields.destination
                     /\ prompts = <<>>
                ELSE /\ Len(prompts) = 2
                     /\ queries[1].origin = Strip(prompts[1])
                     /\ queries[1].destination = Strip(prompts[2])
                     /\ out[1] = NoDefaultsLine
             /\ \A i \in 1..Len(queries) :
                    /\ queries[i].origin \notin {CliOrigin, None}
                    /\ queries[i].destination \notin {CliOrigin, None}
             /\ \A i \in 1..Len(out) : \A j \in 1..Len(out[i].strs) :
                    out[i].strs[j] # CliOrigin

C7_Witness ==
    /\ pc = "exit" /\ argv.origin = CliOrigin /\ argv.destination = None
    /\ Len(queries) = 2 /\ Len(prompts) = 2

\* the current-ETA step (query, computations, the two prints) succeeded
CurrentSucceeded == PrintedKind(CurrentKind)

\* the run got as far as the try block of line 122
ReachedQueryStep ==
    /\ parsed /\ uncaught = "none"
    /\ ~(argv.defaults /\ ~BothSupplied)
    /\ pc \in {"future", "exit"}

\* C8: the probe is attempted at most once and at most two directions queries
\* are made; a finished run that reached the query step made exactly one
\* when no future offset was requested or the current-ETA step failed, and
\* exactly two when an offset was requested and the current-ETA step
\* succeeded; a run that did not reach the query step made none.
C8_NoRetries ==
    /\ Len(probe) <= 1
    /\ Len(queries) <= 2
    /\ Len(results) = Len(queries)
    /\ pc = "future" => (Len(queries) = 1 /\ CurrentSucceeded /\ argv.future.given)
    /\ (pc \notin {"future", "exit"}) => queries = <<>>
    /\ pc = "exit" =>
         Len(queries) = (IF ~ReachedQueryStep THEN 0
                         ELSE IF argv.future.given /\ CurrentSucceeded THEN 2
                         ELSE 1)

C8_Witness ==
    /\ pc = "exit" /\ Len(queries) = 2 /\ argv.future.n = 0

\* C9: the second query is keyed by the formatted origin and destination the
\* first query returned and by departure time now + 60*N, now being the
\* departure time of the first query.
C9_FutureQueryKey ==
    Len(queries) = 2 =>
        /\ ~results[1].raised /\ results[1].routes # <<>>
        /\ queries[2].origin = results[1].routes[1].addresses[1]
        /\ queries[2].destination = results[1].routes[1].addresses[2]
        /\ queries[1].depart = now
        /\ queries[2].depart = queries[1].depart + 60 * argv.future.n
        /\ argv.future.given

C9_Witness ==
    /\ Len(queries) = 2 /\ argv.future.n = 30
    /\ queries[1].origin = CliOrigin
    /\ queries[2].origin = <<"F">>

\* the first result is a route whose distance text parses
FirstResultUsable ==
    /\ Len(results) >= 1
    /\ ~results[1].raised /\ results[1].routes # <<>>
    /\ DistanceMiles(results[1].routes[1].distance).exc = "none"

C10_Order ==
    \* no route or ETA line after an Error line
    /\ \A i, j \in 1..Len(out) :
         (i < j /\ out[i].kind = ErrorKind)
            => out[j].kind \notin {RouteKind, CurrentKind, FutureKind}
    \* the route line and the current-ETA line come together, in that order,
    \* and only after a current-ETA query that succeeded
    /\ \A i \in 1..Len(out) :
         /\ out[i].kind = RouteKind =>
              (FirstResultUsable /\ i < Len(out) /\ out[i + 1].kind = CurrentKind)
         /\ out[i].kind = CurrentKind => (i > 1 /\ out[i - 1].kind = RouteKind)
    \* the future line follows them, only after a future query that succeeded
    /\ \A i \in 1..Len(out) :
         out[i].kind = FutureKind =>
            /\ Len(results) = 2
            /\ ~results[2].raised /\ results[2].routes # <<>>
            /\ DistanceMiles(results[2].routes[1].distance).exc = "none"
            /\ i > 2 /\ out[i - 1].kind = CurrentKind /\ i = Len(out)
    \* a failed future step leaves both lines, followed by the Error line
    /\ (Len(results) = 2 /\ ~PrintedKind(FutureKind)) =>
         \E i \in 1..(Len(out) - 2) :
            /\ out[i].kind = RouteKind
            /\ out[i + 1].kind = CurrentKind
            /\ out[i + 2].kind = ErrorKind

C10_Step ==
    \* what was printed stays printed
    /\ Len(out') >= Len(out) /\ SubSeq(out', 1, Len(out)) = out
    \* both lines are out before the future query is issued
    /\ (Len(queries') = 2 /\ Len(queries) = 1) =>
         /\ Len(out) >= 2
         /\ out[Len(out) - 1].kind = RouteKind
         /\ out[Len(out)].kind = CurrentKind
    \* and neither is out before the current query is issued
    /\ queries = <<>> => (~PrintedKind(RouteKind) /\ ~PrintedKind(CurrentKind))

\* C10: the route line and the current-ETA line are printed, in that order,
\* only after the current-ETA step succeeded and before the future query is
\* issued; when the future step fails both remain, followed by the Error
\* line; the "ETA in N min" line is printed only when the future step
\* succeeded; no route or ETA line follows an Error line.
C10_OutputOrdering == [](C10_Order) /\ [][C10_Step]_vars

C10_Witness ==
    /\ pc = "exit" /\ Len(results) = 2 /\ results[2].raised
    /\ Len(out) = 3
    /\ out[1].kind = RouteKind /\ out[2].kind = CurrentKind
    /\ out[3].kind = ErrorKind

============================================================================
